---- MODULE Spec2Model ----
(***************************************************************************)
(* The dispatch / listener-registry engine of xstd-js/event-emitter:       *)
(* EventEmitter (event-emitter.ts) and AsyncEventEmitter                    *)
(* (async-event-emitter.ts).  One emitter is modelled; cfg.kind says which  *)
(* of the two classes it is.  A listener is run step by step, so that it    *)
(* can dispatch, listen and unregister while the dispatch loop is running.  *)
(* untilNext and toAsyncGenerator are modelled on top of the engine: their   *)
(* internal listeners sit in the same registry and the same loop runs them. *)
(***************************************************************************)
EXTENDS Integers, Sequences, FiniteSets, TLC

VARIABLES
    cfg,        \* constructor options: kind, unique, listenAfterUniqueDispatched
    emitter,    \* the private fields of the emitter
    handles,    \* the undo functions returned by listen (their closure variables,
                \* and inCall: the #dispatch call whose listener called listen)
    calls,      \* every call of #dispatch made so far, with its outcome
    promises,   \* the promises returned by the listeners of the async emitter
    stack,      \* the #dispatch calls on the call stack, innermost last
    warnings,   \* number of console.warn emitted by checkMaxListeners
    listenErrors, \* the errors thrown by listen calls
    signal,     \* the AbortSignal handed to untilNext and toAsyncGenerator
    waits,      \* the promises returned by untilNext, with their closures
    gen,        \* the async generator returned by toAsyncGenerator
    now         \* Date.now()

\* The state of the engine, and the state of what is built on it.
engine == <<cfg, emitter, handles, calls, promises, stack, warnings, listenErrors>>
ext == <<signal, waits, gen, now>>
vars == <<cfg, emitter, handles, calls, promises, stack, warnings, listenErrors,
          signal, waits, gen, now>>

----------------------------------------------------------------------------
\* Bounds of the model.
MaxListen == 3          \* listen calls
MaxDispatch == 2        \* #dispatch calls (nested ones included)
MaxPromises == 2        \* promises returned by listeners
MaxFns == 2             \* distinct listener functions
MaxWaits == 2           \* untilNext calls
MaxBurst == 3           \* #dispatch calls on an emitter that has a generator
MaxGenListen == 2       \* listen calls on an emitter that has a generator
MaxPulls == 3           \* next() calls on the generator
MaxNow == 2             \* the last instant of the clock

\* Inputs.  The emitter never looks into a value or a reason, so the c-th
\* dispatch call sends the value c, and every failure has a reason of its own;
\* listener functions are numbered in the order of their first registration.
Fns == 1..MaxFns

\* static #maxUnsubscribeCount = 0xff, scaled down.
maxUnsubscribeCount == 2
\* option maxListeners (default 10), scaled down.
maxListeners == 2

\* A slot of #listeners: a listener function with the registration that put it
\* there (reg, which the code does not store), the tombstone, or an array hole.
Slot(fn, reg) == [fn |-> fn, reg |-> reg]
noop == Slot(0, 0)
hole == Slot(-1, 0)

\* Errors: new Error(msg), a listener's reason, or new AggregateError(errors).
Error(msg, id) == [agg |-> FALSE, msg |-> msg, id |-> id, errors |-> <<>>]
AggregateError(errors) ==
    [agg |-> TRUE, msg |-> "AggregateError", id |-> 0, errors |-> errors]
NoError == Error("none", 0)
ReentrancyError == Error("Dispatch loop detected.", 0)
AlreadyEmittedError == Error("Event already emitted.", 0)
TypeError == Error("TypeError", 0)
\* The reason a listener throws at its invocation by call c in slot i, and the
\* reason promise p is rejected with.
Thrown(c, i) == Error("thrown", c * 10 + i)
Rejected(p) == Error("rejected", p)
\* The reason the AbortController aborts with.
AbortReason == Error("aborted", 0)

\* The listener functions that untilNext and toAsyncGenerator register: the
\* closure of the w-th untilNext call, and the closure of the generator.
WaitFn(w) == 100 + w
BridgeFn == 200
\* The abort handlers on the signal: onAbort of the w-th untilNext call is w,
\* onAbort of the generator is BridgeOnAbort.
BridgeOnAbort == 0

\* Number.POSITIVE_INFINITY.
Infinity == 99

\* The AbortSignal: its flag, its reason, and its 'abort' listeners in the
\* order of addEventListener.
NewSignal == [aborted |-> FALSE, reason |-> NoError, observers |-> <<>>]

\* The promise of an untilNext call with its closure: whether it was given the
\* signal, the handle that listen returned to it (stopSelfListener; 0 when
\* listen was not reached or threw), and what the code does not store: how
\* often end() ran, how often resolve or reject was called, and the number of
\* dispatch calls made before it.
NewWait(useSignal, state, reason, handle) ==
    [signal |-> useSignal, state |-> state, value |-> 0, reason |-> reason,
     handle |-> handle, ends |-> 0, settles |-> 0, after |-> Len(calls),
     inCall |-> IF stack = <<>> THEN 0 ELSE stack[Len(stack)].call]

\* The generator of toAsyncGenerator(options) with its local variables:
\* bufferSize and windowTime (after Math.max(0, .)), values, pendingRead
\* (TRUE when not undefined) and the promise of the PromiseWithResolvers the
\* body awaits (read, readReason), the handle deferred on the DisposableStack
\* (0 when none), the return() request waiting in the generator's queue,
\* whether return() was called, the next() calls made so far with their
\* outcome, and whether onAbort ran on an undefined pendingRead.
NoGen ==
    [state |-> "none", bufferSize |-> 0, windowTime |-> 0, signal |-> FALSE,
     values |-> <<>>, pendingRead |-> FALSE, read |-> "none",
     readReason |-> NoError, handle |-> 0, returnRequested |-> FALSE,
     returned |-> FALSE, pulls |-> <<>>, derefUndefined |-> FALSE]

\* Math.max(0, x)
Max0(x) == IF x < 0 THEN 0 ELSE x

NewGen(bufferSize, windowTime, useSignal) ==
    [NoGen EXCEPT !.state = "suspendedStart", !.bufferSize = Max0(bufferSize),
                  !.windowTime = Max0(windowTime), !.signal = useSignal]

\* The options toAsyncGenerator is called with.
BufferSizes == {0, 2, Infinity}
WindowTimes == {-1, 1, Infinity}

----------------------------------------------------------------------------
\* Array.prototype.indexOf by identity of the listener function: 0-based, -1 if absent.
RECURSIVE IndexOfFrom(_, _, _)
IndexOfFrom(ls, fn, k) ==
    IF k > Len(ls) THEN -1
    ELSE IF ls[k].fn = fn THEN k - 1
    ELSE IndexOfFrom(ls, fn, k + 1)

IndexOf(ls, fn) == IndexOfFrom(ls, fn, 1)

\* A removal that splices the slot out of the array.
SetNoopSplices(e, index) ==
    IF index = -1 \/ index >= Len(e.listeners) THEN e
    ELSE [e EXCEPT !.listeners =
             SubSeq(@, 1, index) \o SubSeq(@, index + 2, Len(@))]

\* listeners[index] = noop, as JavaScript does it: index -1 sets a property
\* beside the elements, an index beyond the end extends the array with holes.
SetNoop(e, index) ==
    IF index = -1 THEN [e EXCEPT !.stray = TRUE]
    ELSE IF index < Len(e.listeners)
         THEN [e EXCEPT !.listeners[index + 1] = noop]
         ELSE [e EXCEPT !.listeners =
                  [k \in 1..(index + 1) |->
                      IF k <= Len(e.listeners) THEN e.listeners[k]
                      ELSE IF k = index + 1 THEN noop ELSE hole]]

----------------------------------------------------------------------------
\* The private methods.
\* A uniqueness test that holds only once the dispatch has returned.
isUniqueAndDoneAfterLoop ==
    cfg.unique /\ emitter.dispatchCount # 0 /\ ~emitter.dispatching

\* A test that lets one more dispatch through.
isUniqueAndDoneOffByOne == cfg.unique /\ emitter.dispatchCount > 1

isUniqueAndDone == cfg.unique /\ emitter.dispatchCount # 0

clear(e) ==
    [e EXCEPT !.unsubscribeCount = 0,
              !.clearCount = @ + 1,
              !.listeners = SelectSeq(@, LAMBDA l : l # noop /\ l # hole),
              !.stray = FALSE]

clearIfMaxUnsubscribeCountIsReached(e) ==
    IF e.unsubscribeCount >= maxUnsubscribeCount THEN clear(e) ELSE e

\* A check that warns as soon as the limit is reached.
checkMaxListenersAtLimit(listenersCount, max) ==
    IF listenersCount >= max THEN 1 ELSE 0

\* checkMaxListeners(listenersCount, maxListeners): 1 when it warns.
checkMaxListeners(listenersCount, max) ==
    IF listenersCount > max THEN 1 ELSE 0

----------------------------------------------------------------------------
Init ==
    /\ cfg \in [kind : {"sync", "async"},
                unique : BOOLEAN,
                listenAfterUniqueDispatched : {"default", "error"}]
    /\ cfg.unique \/ cfg.listenAfterUniqueDispatched = "default"
    /\ emitter = [listeners |-> <<>>, stray |-> FALSE, unsubscribeCount |-> 0,
                  clearCount |-> 0, dispatchCount |-> 0, dispatching |-> FALSE]
    /\ handles = <<>>
    /\ calls = <<>>
    /\ promises = <<>>
    /\ stack = <<>>
    /\ warnings = 0
    /\ listenErrors = <<>>
    /\ signal = NewSignal
    /\ waits = <<>>
    /\ gen = NoGen
    /\ now = 0

\* The innermost running #dispatch, and where the program is.
Top == stack[Len(stack)]
Idle == stack = <<>> /\ gen.state # "running"
\* The listener function that the innermost #dispatch is running.
Current == calls[Top.call].log[Len(calls[Top.call].log)].fn
\* A listener of the caller is running (not one of untilNext or of the generator).
InListener ==
    stack # <<>> /\ Top.at = "listener" /\ Top.exc = NoError /\ Current \in Fns
SetTop(f) == [stack EXCEPT ![Len(stack)] = f]
Pop == SubSeq(stack, 1, Len(stack) - 1)

----------------------------------------------------------------------------
\* listen(listener): the result is "error", "noop" or "registered".
listenResult ==
    IF isUniqueAndDone
    THEN IF cfg.listenAfterUniqueDispatched = "error" THEN "error" ELSE "noop"
    ELSE "registered"

\* The bound on the listen calls.
MaxListenCalls == IF gen.state = "none" THEN MaxListen ELSE MaxGenListen

listen(fn) ==
    /\ Len(handles) + Len(listenErrors) < MaxListenCalls
    /\ CASE listenResult = "error" ->
              /\ listenErrors' = Append(listenErrors, AlreadyEmittedError)
              /\ UNCHANGED <<emitter, handles, warnings>>
         [] listenResult = "noop" ->
              /\ handles' = Append(handles,
                     [fn |-> fn, index |-> -1, clearCount |-> 0,
                      isNoop |-> TRUE,
                      inCall |-> IF stack = <<>> THEN 0
                                 ELSE stack[Len(stack)].call])
              /\ UNCHANGED <<emitter, warnings, listenErrors>>
         [] listenResult = "registered" ->
              /\ emitter' = [emitter EXCEPT !.listeners =
                                Append(@, Slot(fn, Len(handles) + 1))]
              /\ handles' = Append(handles,
                     [fn |-> fn, index |-> Len(emitter.listeners),
                      clearCount |-> emitter.clearCount,
                      isNoop |-> FALSE,
                      inCall |-> IF stack = <<>> THEN 0
                                 ELSE stack[Len(stack)].call])
              /\ warnings' = warnings +
                     checkMaxListeners(Len(emitter.listeners) + 1, maxListeners)
              /\ UNCHANGED listenErrors

\* The undo function returned by listen: the index it tombstones.
undoIndex(e, h) ==
    IF h.clearCount # e.clearCount THEN IndexOf(e.listeners, h.fn) ELSE h.index

\* An undo function without its "already removed" test.
undoEmitterNoGuard(e, h) ==
    IF h.isNoop THEN e
    ELSE clearIfMaxUnsubscribeCountIsReached(SetNoop(e, undoIndex(e, h)))

undoEmitter(e, h) ==
    IF h.isNoop \/ h.index = -1 THEN e
    ELSE clearIfMaxUnsubscribeCountIsReached(SetNoop(e, undoIndex(e, h)))

undoHandle(e, h) ==
    IF h.isNoop \/ h.index = -1 THEN h
    ELSE [h EXCEPT !.index = -1, !.clearCount = e.clearCount]

undo(k) ==
    /\ emitter' = undoEmitter(emitter, handles[k])
    /\ handles' = [handles EXCEPT ![k] = undoHandle(emitter, handles[k])]

----------------------------------------------------------------------------
\* #dispatch(value)
\* The record of a call of #dispatch: its argument and outcome, the listeners
\* it invoked (log) and the promises it collected, and what the code does not
\* store: the call it was made from (parent, 0 at the top level) and the
\* position in the parent's log of the listener that made it (by), whether it
\* passed the guards (entered) and finished its for loop (looped), whether
\* the listener that made it let its failure escape (escaped), the
\* registrations its loop never reached (skipped), and whether it was issued
\* while the call before it was awaiting a pending result (overlap).
NewCall(v, status, error) ==
    [value |-> v, status |-> status, error |-> error,
     log |-> <<>>, promises |-> <<>>,
     parent |-> IF stack = <<>> THEN 0 ELSE stack[Len(stack)].call,
     by |-> IF stack = <<>> THEN 0 ELSE Len(calls[stack[Len(stack)].call].log),
     entered |-> status = "running", looped |-> FALSE, skipped |-> {},
     escaped |-> FALSE,
     overlap |-> /\ stack = <<>>
                 /\ calls # <<>>
                 /\ calls[Len(calls)].status = "awaiting"
                 /\ \E k \in 1..Len(calls[Len(calls)].promises) :
                       LET p == promises[calls[Len(calls)].promises[k]] IN
                       p.of = 0 /\ p.state = "pending"]

NewFrame(c) == [call |-> c, i |-> 0, at |-> "loop", exc |-> NoError, inner |-> 0]

\* A #dispatch that forgets the test of the flag.
dispatchGuardNoLoopTest ==
    IF isUniqueAndDone THEN AlreadyEmittedError ELSE NoError

\* The two guards at the head of #dispatch.
dispatchGuard ==
    IF emitter.dispatching THEN ReentrancyError
    ELSE IF isUniqueAndDone THEN AlreadyEmittedError
    ELSE NoError

\* What the caller of a #dispatch that failed with err sees: the synchronous
\* emitter throws into the calling listener, the asynchronous one returns a
\* rejected promise (the call c itself).
Unwind(st, c, err) ==
    IF st = <<>> THEN st
    ELSE IF cfg.kind = "sync"
         THEN [st EXCEPT ![Len(st)].exc = err, ![Len(st)].inner = c]
         ELSE [st EXCEPT ![Len(st)].inner = c]

\* The bound on the #dispatch calls.
MaxCalls == IF gen.state = "none" THEN MaxDispatch ELSE MaxBurst

\* A call of #dispatch, from the top level or from a listener (nested).
dispatch(v) ==
    LET c == Len(calls) + 1 IN
    /\ Len(calls) < MaxCalls
    /\ IF dispatchGuard # NoError
       THEN /\ calls' = Append(calls, NewCall(v, "failed", dispatchGuard))
            /\ stack' = Unwind(stack, c, dispatchGuard)
            /\ UNCHANGED emitter
       ELSE /\ calls' = Append(calls, NewCall(v, "running", NoError))
            /\ emitter' = [emitter EXCEPT !.dispatching = TRUE,
                                          !.dispatchCount = @ + 1]
            /\ stack' = Append(stack, NewFrame(c))


\* The registrations in the slots after slot i (0-based).
Unreached(i) ==
    {emitter.listeners[k].reg : k \in (i + 2)..Len(emitter.listeners)} \ {0}

\* A for loop that steps over a slot.
loopNextSkipsOne(i) == i + 2

\* i++ of the for loop.
loopNext(i) == i + 1

\* A #dispatch that throws err (before its await): the flag is left as it is.
Fail(c, err) ==
    /\ calls' = [calls EXCEPT ![c].status = "failed", ![c].error = err,
                              ![c].skipped = Unreached(stack[Len(stack)].i)]
    /\ stack' = Unwind(Pop, c, err)

\* The same, by a listener that lets the failure of its dispatch call n escape.
FailEscaping(c, err, n) ==
    /\ calls' = [calls EXCEPT ![c].status = "failed", ![c].error = err,
                              ![c].skipped = Unreached(stack[Len(stack)].i),
                              ![n].escaped = TRUE]
    /\ stack' = Unwind(Pop, c, err)

\* An end of #dispatch that leaves the flag set (to clear it after the await).
dispatchEndKeepsFlag(e) ==
    IF cfg.unique
    THEN [e EXCEPT !.clearCount = 1, !.listeners = <<>>, !.stray = FALSE]
    ELSE clearIfMaxUnsubscribeCountIsReached(e)

\* The end of #dispatch after the for loop: the registry reset of unique mode
\* or the compaction check, then the flag.
dispatchEnd(e) ==
    [(IF cfg.unique
      THEN [e EXCEPT !.clearCount = 1, !.listeners = <<>>, !.stray = FALSE]
      ELSE clearIfMaxUnsubscribeCountIsReached(e))
     EXCEPT !.dispatching = FALSE]

\* The state of a promise: its own, or the one of the #dispatch call it is.
PState(p) ==
    IF p.of = 0 THEN p.state
    ELSE IF calls[p.of].status = "failed" THEN "rejected"
    ELSE IF calls[p.of].status = "returned" THEN "fulfilled"
    ELSE "pending"

PReason(p) == IF p.of = 0 THEN p.reason ELSE calls[p.of].error

\* The reasons of the rejected promises of ps, in the order of ps.
RECURSIVE rejectedReasons(_)
rejectedReasons(ps) ==
    IF ps = <<>> THEN <<>>
    ELSE (IF PState(promises[Head(ps)]) = "rejected"
          THEN <<PReason(promises[Head(ps)])>> ELSE <<>>)
         \o rejectedReasons(Tail(ps))

\* throw errors.length === 1 ? errors[0] : new AggregateError(errors)
aggregate(errors) ==
    IF Len(errors) = 1 THEN errors[1] ELSE AggregateError(errors)

----------------------------------------------------------------------------
\* The listener functions a listen call is tried with: those registered so
\* far and one new one.
FnChoices ==
    {fn \in Fns : \A g \in 1..(fn - 1) : \E k \in 1..Len(handles) : handles[k].fn = g}

\* Top level: no #dispatch is on the call stack.
Listen ==
    /\ Idle
    /\ \E fn \in FnChoices : listen(fn)
    /\ UNCHANGED <<cfg, calls, promises, stack>>
    /\ UNCHANGED ext

Unlisten ==
    /\ Idle
    /\ \E k \in 1..Len(handles) : handles[k].fn \in Fns /\ undo(k)
    /\ UNCHANGED <<cfg, calls, promises, stack, warnings, listenErrors>>
    /\ UNCHANGED ext

Dispatch ==
    /\ Idle
    /\ dispatch(Len(calls) + 1)
    /\ UNCHANGED <<cfg, handles, promises, warnings, listenErrors>>
    /\ UNCHANGED ext

\* A promise returned by a listener settles (one that a dispatch call is
\* waiting for: nothing observes the others).
Settle ==
    /\ Idle
    /\ \E p \in 1..Len(promises) :
        /\ promises[p].of = 0
        /\ promises[p].state = "pending"
        /\ calls[promises[p].call].status = "awaiting"
        /\ \E outcome \in {NoError, Rejected(p)} :
              promises' = [promises EXCEPT ![p] =
                  [@ EXCEPT !.state = IF outcome = NoError THEN "fulfilled"
                                                         ELSE "rejected",
                            !.reason = outcome]]
    /\ UNCHANGED <<cfg, emitter, handles, calls, stack, warnings, listenErrors>>
    /\ UNCHANGED ext

\* The asynchronous #dispatch after await Promise.allSettled(promises).
AsyncResume ==
    /\ Idle
    /\ \E c \in 1..Len(calls) :
        /\ calls[c].status = "awaiting"
        /\ \A k \in 1..Len(calls[c].promises) :
              PState(promises[calls[c].promises[k]]) # "pending"
        /\ LET errors == rejectedReasons(calls[c].promises) IN
           calls' = [calls EXCEPT
               ![c].status = IF Len(errors) > 0 THEN "failed" ELSE "returned",
               ![c].error = IF Len(errors) > 0 THEN aggregate(errors) ELSE NoError]
    /\ UNCHANGED <<cfg, emitter, handles, promises, stack, warnings, listenErrors>>
    /\ UNCHANGED ext

----------------------------------------------------------------------------
\* The for loop of #dispatch.
Invoke ==
    /\ stack # <<>>
    /\ Top.at = "loop"
    /\ Top.i < Len(emitter.listeners)
    /\ LET slot == emitter.listeners[Top.i + 1]
           c == Top.call IN
       CASE slot = noop ->
              /\ stack' = SetTop([Top EXCEPT !.i = loopNext(@)])
              /\ UNCHANGED calls
         [] slot = hole -> Fail(c, TypeError)
         [] OTHER ->
              /\ calls' = [calls EXCEPT ![c].log = Append(@,
                     [reg |-> slot.reg, fn |-> slot.fn, value |-> calls[c].value])]
              /\ stack' = SetTop([Top EXCEPT !.at = "listener", !.inner = 0])
    /\ UNCHANGED <<cfg, emitter, handles, promises, warnings, listenErrors>>
    /\ UNCHANGED ext

DispatchEnd ==
    /\ stack # <<>>
    /\ Top.at = "loop"
    /\ Top.i >= Len(emitter.listeners)
    /\ emitter' = dispatchEnd(emitter)
    /\ IF cfg.kind = "sync"
       THEN /\ calls' = [calls EXCEPT ![Top.call].status = "returned",
                                      ![Top.call].looped = TRUE]
            /\ stack' = Pop
       ELSE /\ calls' = [calls EXCEPT ![Top.call].status = "awaiting",
                                      ![Top.call].looped = TRUE]
            /\ stack' = IF Pop = <<>> THEN Pop
                        ELSE [Pop EXCEPT ![Len(Pop)].inner = Top.call]
    /\ UNCHANGED <<cfg, handles, promises, warnings, listenErrors>>
    /\ UNCHANGED ext

----------------------------------------------------------------------------
\* What a listener does while it runs.
ListenerListen ==
    /\ InListener
    /\ \E fn \in FnChoices : listen(fn)
    /\ stack' = IF listenResult = "error"
                THEN SetTop([Top EXCEPT !.exc = AlreadyEmittedError, !.inner = 0])
                ELSE stack
    /\ UNCHANGED <<cfg, calls, promises>>
    /\ UNCHANGED ext

ListenerUnlisten ==
    /\ InListener
    /\ \E k \in 1..Len(handles) : handles[k].fn \in Fns /\ undo(k)
    /\ UNCHANGED <<cfg, calls, promises, stack, warnings, listenErrors>>
    /\ UNCHANGED ext

ListenerDispatch ==
    /\ InListener
    /\ dispatch(Len(calls) + 1)
    /\ UNCHANGED <<cfg, handles, promises, warnings, listenErrors>>
    /\ UNCHANGED ext

\* The listener catches the error of the call it made.
ListenerCatch ==
    /\ stack # <<>>
    /\ Top.at = "listener"
    /\ Top.exc # NoError
    /\ stack' = SetTop([Top EXCEPT !.exc = NoError, !.inner = 0])
    /\ UNCHANGED <<cfg, emitter, handles, calls, promises, warnings, listenErrors>>
    /\ UNCHANGED ext

\* The listener lets the error of the call it made escape.
ListenerRethrow ==
    /\ stack # <<>>
    /\ Top.at = "listener"
    /\ Top.exc # NoError
    /\ IF Top.inner = 0
       THEN Fail(Top.call, Top.exc)
       ELSE FailEscaping(Top.call, Top.exc, Top.inner)
    /\ UNCHANGED <<cfg, emitter, handles, promises, warnings, listenErrors>>
    /\ UNCHANGED ext

ListenerThrow ==
    /\ InListener
    /\ Fail(Top.call, Thrown(Top.call, Top.i))
    /\ UNCHANGED <<cfg, emitter, handles, promises, warnings, listenErrors>>
    /\ UNCHANGED ext

\* The listener returns: nothing, a promise of its own, or (asynchronous
\* emitter) the promise of the dispatch call it made.
ListenerReturn ==
    /\ InListener
    /\ stack' = SetTop([Top EXCEPT !.at = "loop", !.i = loopNext(@), !.inner = 0])
    /\ \E result \in {"undefined"}
            \cup (IF cfg.kind = "async" THEN {"promise"} ELSE {})
            \cup (IF cfg.kind = "async" /\ Top.inner # 0 THEN {"inner"} ELSE {}) :
        IF result = "undefined"
        THEN UNCHANGED <<calls, promises>>
        ELSE /\ Len(promises) < MaxPromises
             /\ promises' = Append(promises,
                    [state |-> "pending", reason |-> NoError,
                     of |-> IF result = "inner" THEN Top.inner ELSE 0,
                     call |-> Top.call, by |-> Len(calls[Top.call].log)])
             /\ calls' = IF result = "inner"
                         THEN [calls EXCEPT ![Top.call].promises =
                                                Append(@, Len(promises) + 1),
                                            ![Top.inner].escaped = TRUE]
                         ELSE [calls EXCEPT ![Top.call].promises =
                                                Append(@, Len(promises) + 1)]
    /\ UNCHANGED <<cfg, emitter, handles, warnings, listenErrors>>
    /\ UNCHANGED ext

Next ==
    \/ Listen
    \/ Unlisten
    \/ Dispatch
    \/ Settle
    \/ AsyncResume
    \/ Invoke
    \/ DispatchEnd
    \/ ListenerListen
    \/ ListenerUnlisten
    \/ ListenerDispatch
    \/ ListenerCatch
    \/ ListenerRethrow
    \/ ListenerThrow
    \/ ListenerReturn

Spec == Init /\ [][Next]_vars

----------------------------------------------------------------------------
\* untilNext and the AbortSignal.
\* A removeEventListener that removes nothing.
removeObserverKeeps(obs, h) == obs

\* signal.removeEventListener('abort', h)
removeObserver(obs, h) == SelectSeq(obs, LAMBDA x : x # h)

\* resolve(value) and reject(reason) of the promise of an untilNext call: a
\* promise that is settled stays as it is.
resolveWait(wt, v) ==
    [wt EXCEPT !.settles = @ + 1,
               !.state = IF wt.state = "pending" THEN "resolved" ELSE @,
               !.value = IF wt.state = "pending" THEN v ELSE @]

rejectWait(wt, r) ==
    [wt EXCEPT !.settles = @ + 1,
               !.state = IF wt.state = "pending" THEN "rejected" ELSE @,
               !.reason = IF wt.state = "pending" THEN r ELSE @]

\* untilNext({ signal }): the executor of the promise.
untilNext(useSignal) ==
    LET w == Len(waits) + 1 IN
    /\ Len(waits) < MaxWaits
    /\ IF useSignal /\ signal.aborted
       THEN /\ waits' = Append(waits,
                   rejectWait(NewWait(useSignal, "pending", NoError, 0),
                              signal.reason))
            /\ UNCHANGED <<emitter, handles, warnings, listenErrors, signal>>
       ELSE /\ listen(WaitFn(w))
            /\ IF listenResult = "error"
               THEN /\ waits' = Append(waits,
                           rejectWait(NewWait(useSignal, "pending", NoError, 0),
                                      AlreadyEmittedError))
                    /\ UNCHANGED signal
               ELSE /\ waits' = Append(waits,
                           NewWait(useSignal, "pending", NoError,
                                   Len(handles) + 1))
                    /\ signal' = IF useSignal
                                 THEN [signal EXCEPT !.observers = Append(@, w)]
                                 ELSE signal

\* What the handlers of the 'abort' event work on.
AbortState(e, hs, sg, ws, g) ==
    [emitter |-> e, handles |-> hs, signal |-> sg, waits |-> ws, gen |-> g]

\* onAbort of the w-th untilNext call: end(), then reject(signal.reason).
waitOnAbort(st, w) ==
    LET k == st.waits[w].handle IN
    [st EXCEPT !.emitter = undoEmitter(st.emitter, st.handles[k]),
               !.handles[k] = undoHandle(st.emitter, st.handles[k]),
               !.signal.observers = removeObserver(@, w),
               !.waits[w] = rejectWait([@ EXCEPT !.ends = @ + 1],
                                       st.signal.reason)]

\* onAbort of the generator: a pendingRead that is undefined makes
\* pendingRead!.reject throw a TypeError out of the handler.
bridgeOnAbort(st) ==
    IF st.gen.pendingRead
    THEN [st EXCEPT !.signal.observers = removeObserver(@, BridgeOnAbort),
                    !.gen.read = "rejected",
                    !.gen.readReason = st.signal.reason,
                    !.gen.pendingRead = FALSE]
    ELSE [st EXCEPT !.signal.observers = removeObserver(@, BridgeOnAbort),
                    !.gen.derefUndefined = TRUE]

\* The 'abort' event: the handlers run in the order of their registration.
RECURSIVE runAbortHandlers(_, _)
runAbortHandlers(st, obs) ==
    IF obs = <<>> THEN st
    ELSE runAbortHandlers(
             IF Head(obs) = BridgeOnAbort THEN bridgeOnAbort(st)
             ELSE waitOnAbort(st, Head(obs)),
             Tail(obs))

\* controller.abort(reason)
abort ==
    /\ ~signal.aborted
    /\ LET st == runAbortHandlers(
                     AbortState(emitter, handles,
                                [signal EXCEPT !.aborted = TRUE,
                                               !.reason = AbortReason],
                                waits, gen),
                     signal.observers) IN
       /\ emitter' = st.emitter
       /\ handles' = st.handles
       /\ signal' = st.signal
       /\ waits' = st.waits
       /\ gen' = st.gen

UntilNext ==
    /\ Idle
    /\ \E useSignal \in BOOLEAN : untilNext(useSignal)
    /\ UNCHANGED <<cfg, calls, promises, stack, gen, now>>

ListenerUntilNext ==
    /\ InListener
    /\ \E useSignal \in BOOLEAN : untilNext(useSignal)
    /\ UNCHANGED <<cfg, calls, promises, stack, gen, now>>

Abort ==
    /\ Idle
    /\ abort
    /\ UNCHANGED <<cfg, calls, promises, stack, warnings, listenErrors, now>>

ListenerAbort ==
    /\ InListener
    /\ abort
    /\ UNCHANGED <<cfg, calls, promises, stack, warnings, listenErrors, now>>

\* The listener of an untilNext call, invoked by the loop of #dispatch:
\* end(), then resolve(value); it returns undefined.
WaitListener ==
    /\ stack # <<>>
    /\ Top.at = "listener"
    /\ Top.exc = NoError
    /\ \E w \in 1..Len(waits) :
        /\ Current = WaitFn(w)
        /\ LET k == waits[w].handle
               value == calls[Top.call].log[Len(calls[Top.call].log)].value IN
           /\ emitter' = undoEmitter(emitter, handles[k])
           /\ handles' = [handles EXCEPT ![k] = undoHandle(emitter, handles[k])]
           /\ signal' = [signal EXCEPT !.observers = removeObserver(@, w)]
           /\ waits' = [waits EXCEPT ![w] =
                            resolveWait([@ EXCEPT !.ends = @ + 1], value)]
    /\ stack' = SetTop([Top EXCEPT !.at = "loop", !.i = loopNext(@), !.inner = 0])
    /\ UNCHANGED <<cfg, calls, promises, warnings, listenErrors, gen, now>>

WaitNext ==
    \/ Listen
    \/ Unlisten
    \/ Dispatch
    \/ AsyncResume
    \/ Invoke
    \/ DispatchEnd
    \/ ListenerUnlisten
    \/ ListenerThrow
    \/ ListenerReturn
    \/ UntilNext
    \/ ListenerUntilNext
    \/ Abort
    \/ ListenerAbort
    \/ WaitListener

\* The emitter with callers of untilNext.
WaitSpec == Init /\ [][WaitNext]_vars

----------------------------------------------------------------------------
\* toAsyncGenerator.  The generator is "suspendedStart" before the first
\* next(), "running" while its body runs, "awaiting" at await
\* pendingRead.promise, "suspendedYield" at yield, and "completed" after a
\* throw or a return.
\* Date.now() + windowTime
expiration(t, windowTime) == IF windowTime = Infinity THEN Infinity ELSE t + windowTime

\* A listener that never evicts.
bridgePushKeepsAll(g, v, t) ==
    IF g.bufferSize > 0 /\ g.windowTime > 0
    THEN Append(g.values,
                [value |-> v, expirationDate |-> expiration(t, g.windowTime)])
    ELSE IF g.pendingRead
         THEN <<[value |-> v, expirationDate |-> Infinity]>>
         ELSE g.values

\* A listener that evicts the newest entry.
bridgePushEvictsNewest(g, v, t) ==
    IF g.bufferSize > 0 /\ g.windowTime > 0
    THEN IF Len(g.values) >= g.bufferSize THEN g.values
         ELSE Append(g.values,
                     [value |-> v, expirationDate |-> expiration(t, g.windowTime)])
    ELSE IF g.pendingRead
         THEN <<[value |-> v, expirationDate |-> Infinity]>>
         ELSE g.values

\* A listener that keeps the latest value when no read is pending.
bridgePushAlwaysLatest(g, v, t) ==
    IF g.bufferSize > 0 /\ g.windowTime > 0
    THEN LET pushed == Append(g.values,
                 [value |-> v, expirationDate |-> expiration(t, g.windowTime)]) IN
         IF Len(pushed) > g.bufferSize THEN Tail(pushed) ELSE pushed
    ELSE <<[value |-> v, expirationDate |-> Infinity]>>

\* The listener of the generator, first part: what it does to values.
bridgePush(g, v, t) ==
    IF g.bufferSize > 0 /\ g.windowTime > 0
    THEN LET pushed == Append(g.values,
                 [value |-> v, expirationDate |-> expiration(t, g.windowTime)]) IN
         IF Len(pushed) > g.bufferSize THEN Tail(pushed) ELSE pushed
    ELSE IF g.pendingRead
         THEN <<[value |-> v, expirationDate |-> Infinity]>>
         ELSE g.values

\* The listener of the generator: values, then the wake-up of pendingRead.
bridgeListener(g, v, t) ==
    [g EXCEPT !.values = bridgePush(g, v, t),
              !.read = IF g.pendingRead THEN "resolved" ELSE @,
              !.pendingRead = FALSE]

\* A purge that removes nothing.
purgeKeepsAll(values, t) == values

\* while (values.length > 0 && values[0].expirationDate < now) values.shift()
RECURSIVE purge(_, _)
purge(values, t) ==
    IF values # <<>> /\ values[1].expirationDate < t
    THEN purge(Tail(values), t)
    ELSE values

\* A next() call and its outcome; start is the instant of the call, after
\* the number of dispatch calls made before it, aborted whether its signal
\* was aborted by then, and expirationDate the one of the entry it was given.
NewPull == [start |-> now, after |-> Len(calls),
            aborted |-> gen.signal /\ signal.aborted, status |-> "pending",
            value |-> 0, expirationDate |-> 0, error |-> NoError]

\* What the body of the generator works on.
GenState(e, hs, sg, g) == [emitter |-> e, handles |-> hs, signal |-> sg, gen |-> g]

\* A disposal that forgets the deferred undo function.
disposeNothing(st) == st

\* The disposal of the DisposableStack (using stack): the deferred undo
\* function, if listen returned one and it was deferred.
dispose(st) ==
    LET k == st.gen.handle IN
    IF k = 0 THEN st
    ELSE [st EXCEPT !.emitter = undoEmitter(st.emitter, st.handles[k]),
                    !.handles[k] = undoHandle(st.emitter, st.handles[k])]

\* The pending next() call fails with err: the exception leaves the body.
throwOut(st, err) ==
    [dispose(st) EXCEPT !.gen.state = "completed",
                        !.gen.pulls[Len(st.gen.pulls)].status = "failed",
                        !.gen.pulls[Len(st.gen.pulls)].error = err]

\* return(): the generator, suspended at yield, leaves the body.
returnOut(st) ==
    [dispose(st) EXCEPT !.gen.state = "completed", !.gen.returnRequested = FALSE]

\* yield values.shift()!.value; a return() that was waiting in the queue is
\* carried out at this yield.
yieldOut(st, values) ==
    LET y == [st EXCEPT !.gen.state = "suspendedYield",
                        !.gen.values = Tail(values),
                        !.gen.pulls[Len(st.gen.pulls)] =
                            [@ EXCEPT !.status = "yielded",
                                      !.value = Head(values).value,
                                      !.expirationDate = Head(values).expirationDate]] IN
    IF st.gen.returnRequested THEN returnOut(y) ELSE y

\* One turn of while (true), up to the yield, the await or the throw.
loopTurn(st, t) ==
    IF st.gen.signal /\ st.signal.aborted
    THEN throwOut(st, st.signal.reason)
    ELSE LET values == purge(st.gen.values, t) IN
         IF values # <<>>
         THEN yieldOut(st, values)
         ELSE [st EXCEPT !.gen.state = "awaiting",
                         !.gen.values = values,
                         !.gen.pendingRead = TRUE,
                         !.gen.read = "pending",
                         !.gen.readReason = NoError,
                         !.signal.observers =
                             IF st.gen.signal THEN Append(@, BridgeOnAbort) ELSE @]

\* The body after await pendingRead.promise: the finally block, then the
\* rejection thrown out of the body or the next turn of the loop.
afterAwait(st) ==
    LET f == [st EXCEPT !.signal.observers = removeObserver(@, BridgeOnAbort)] IN
    IF st.gen.read = "rejected"
    THEN throwOut([f EXCEPT !.gen.read = "none"], st.gen.readReason)
    ELSE [f EXCEPT !.gen.state = "running", !.gen.read = "none"]

\* The emitter with one generator, on which nothing has been called yet.
GenInit ==
    /\ cfg \in [kind : {"sync"},
                unique : BOOLEAN,
                listenAfterUniqueDispatched : {"default", "error"}]
    /\ cfg.unique \/ cfg.listenAfterUniqueDispatched = "default"
    /\ emitter = [listeners |-> <<>>, stray |-> FALSE, unsubscribeCount |-> 0,
                  clearCount |-> 0, dispatchCount |-> 0, dispatching |-> FALSE]
    /\ handles = <<>>
    /\ calls = <<>>
    /\ promises = <<>>
    /\ stack = <<>>
    /\ warnings = 0
    /\ listenErrors = <<>>
    /\ signal = NewSignal
    /\ waits = <<>>
    /\ \E bufferSize \in BufferSizes, windowTime \in WindowTimes,
          useSignal \in BOOLEAN :
          gen = NewGen(bufferSize, windowTime, useSignal)
    /\ now = 0

\* next(): the body starts (the listener is registered and deferred on the
\* DisposableStack) or goes on after the yield.
Pull ==
    /\ Idle
    /\ gen.state \in {"suspendedStart", "suspendedYield"}
    /\ Len(gen.pulls) < MaxPulls
    /\ IF gen.state = "suspendedStart"
       THEN /\ listen(BridgeFn)
            /\ gen' = IF listenResult = "error"
                      THEN [gen EXCEPT !.state = "completed",
                                       !.pulls = Append(@,
                                           [NewPull EXCEPT !.status = "failed",
                                                           !.error = AlreadyEmittedError])]
                      ELSE [gen EXCEPT !.state = "running",
                                       !.handle = Len(handles) + 1,
                                       !.pulls = Append(@, NewPull)]
       ELSE /\ gen' = [gen EXCEPT !.state = "running", !.pulls = Append(@, NewPull)]
            /\ UNCHANGED <<emitter, handles, warnings, listenErrors>>
    /\ UNCHANGED <<cfg, calls, promises, stack, signal, waits, now>>

\* The body runs one turn of its loop.
GenLoop ==
    /\ stack = <<>>
    /\ gen.state = "running"
    /\ LET st == loopTurn(GenState(emitter, handles, signal, gen), now) IN
       /\ emitter' = st.emitter
       /\ handles' = st.handles
       /\ signal' = st.signal
       /\ gen' = st.gen
    /\ UNCHANGED <<cfg, calls, promises, stack, warnings, listenErrors, waits, now>>

\* The body resumes from its await, once the call stack is empty.
GenResume ==
    /\ stack = <<>>
    /\ gen.state = "awaiting"
    /\ gen.read \in {"resolved", "rejected"}
    /\ LET st == afterAwait(GenState(emitter, handles, signal, gen)) IN
       /\ emitter' = st.emitter
       /\ handles' = st.handles
       /\ signal' = st.signal
       /\ gen' = st.gen
    /\ UNCHANGED <<cfg, calls, promises, stack, warnings, listenErrors, waits, now>>

\* return(): a generator that has not started completes at once, one that is
\* suspended at its yield leaves the body, and one that is inside a next()
\* call keeps the request in its queue until that call is answered.
Return ==
    /\ Idle
    /\ ~gen.returned
    /\ gen.state \in {"suspendedStart", "suspendedYield", "awaiting"}
    /\ LET g == [gen EXCEPT !.returned = TRUE]
           st == returnOut(GenState(emitter, handles, signal, g)) IN
       CASE gen.state = "suspendedStart" ->
              /\ gen' = [g EXCEPT !.state = "completed"]
              /\ UNCHANGED <<emitter, handles>>
         [] gen.state = "suspendedYield" ->
              /\ gen' = st.gen
              /\ emitter' = st.emitter
              /\ handles' = st.handles
         [] gen.state = "awaiting" ->
              /\ gen' = [g EXCEPT !.returnRequested = TRUE]
              /\ UNCHANGED <<emitter, handles>>
    /\ UNCHANGED <<cfg, calls, promises, stack, warnings, listenErrors, signal,
                   waits, now>>

\* The listener of the generator, invoked by the loop of #dispatch.
BridgeListener ==
    /\ stack # <<>>
    /\ Top.at = "listener"
    /\ Top.exc = NoError
    /\ Current = BridgeFn
    /\ gen' = bridgeListener(gen,
                  calls[Top.call].log[Len(calls[Top.call].log)].value, now)
    /\ stack' = SetTop([Top EXCEPT !.at = "loop", !.i = loopNext(@), !.inner = 0])
    /\ UNCHANGED <<cfg, emitter, handles, calls, promises, warnings, listenErrors,
                   signal, waits, now>>

\* Time passes.
Tick ==
    /\ Idle
    /\ now < MaxNow
    /\ now' = now + 1
    /\ UNCHANGED <<engine, signal, waits, gen>>

GenNext ==
    \/ Listen
    \/ Dispatch
    \/ Invoke
    \/ DispatchEnd
    \/ ListenerThrow
    \/ ListenerReturn
    \/ Abort
    \/ ListenerAbort
    \/ BridgeListener
    \/ Pull
    \/ GenLoop
    \/ GenResume
    \/ Return
    \/ Tick

\* The emitter with the consumer of one generator.
GenSpec == GenInit /\ [][GenNext]_vars


----------------------------------------------------------------------------
\* Vocabulary of the properties.
Calls == 1..Len(calls)
Handles == 1..Len(handles)
\* The registrations a call invoked.
LogRegs(c) == {calls[c].log[j].reg : j \in 1..Len(calls[c].log)}
\* The listeners that are registered and not unregistered.
Active == {k \in Handles : ~handles[k].isNoop /\ handles[k].index # -1}
\* The for loop of the innermost call has run to its end.
LoopFinished ==
    stack # <<>> /\ Top.at = "loop" /\ Top.i >= Len(emitter.listeners)

----------------------------------------------------------------------------
\* C1 as stated: in every dispatch cycle (of either emitter) that has ended,
\* each registered listener has observed the value: the loop left no
\* registration unreached.
C1_EveryListenerObserves ==
    \A c \in Calls :
        calls[c].entered /\ calls[c].status # "running" => calls[c].skipped = {}

\* C1, amended: the listeners of a cycle are invoked in registration order, each
\* at most once, each with the dispatched value and as the function that was
\* registered; and when the loop of a cycle has run to its end, every listener
\* that is registered and not unregistered has been invoked.
C1_OrderPreservation ==
    /\ \A c \in Calls :
          LET log == calls[c].log IN
          /\ \A j \in 1..Len(log) :
                /\ log[j].value = calls[c].value
                /\ log[j].reg \in Handles
                /\ log[j].fn = handles[log[j].reg].fn
          /\ \A j, k \in 1..Len(log) : j < k => log[j].reg < log[k].reg
    /\ LoopFinished => Active \subseteq LogRegs(Top.call)

\* Three listeners have observed the value of one cycle, which ran to its end.
C1_Witness ==
    /\ LoopFinished
    /\ Len(calls[Top.call].log) = 3
    /\ Active = {1, 2, 3}

----------------------------------------------------------------------------
\* The handle of registration k has been called.
Unregistered(k) == ~handles[k].isNoop /\ handles[k].index = -1
\* How often registration k has been invoked, over all dispatch calls.
InvokedCount(k) ==
    Cardinality(UNION {{<<c, j>> : j \in {i \in 1..Len(calls[c].log) :
                                              calls[c].log[i].reg = k}} :
                       c \in Calls})

\* C2: in every reachable state, calling again a handle that has been called
\* changes neither the emitter nor the handle; and once a handle has been
\* called, no step of any dispatch invokes its listener any more.
C2_UnregisterIdempotence ==
    /\ [](\A k \in Handles : Unregistered(k) =>
              /\ undoEmitter(emitter, handles[k]) = emitter
              /\ undoHandle(emitter, handles[k]) = handles[k])
    /\ [][\A k \in Handles : Unregistered(k) => InvokedCount(k)' = InvokedCount(k)]_vars

\* Registration 1 was unregistered and a dispatch that ran to its end passed
\* over it: it invoked a listener registered later, and not this one.
C2_Witness ==
    /\ 1 \in Handles
    /\ Unregistered(1)
    /\ \E c \in Calls :
          /\ calls[c].looped
          /\ 1 \notin LogRegs(c)
          /\ 2 \in LogRegs(c)

----------------------------------------------------------------------------
\* The dispatch calls made by a listener of call p.
Children(p) == {n \in Calls : calls[n].parent = p}
\* The error err is, or holds, the reentrancy error.
HasReentrancyError(err) ==
    \/ err = ReentrancyError
    \/ \E j \in 1..Len(err.errors) : err.errors[j] = ReentrancyError

\* C3 as stated: a dispatch whose listener dispatched on the same emitter
\* still completes normally: it does not fail with the error of the inner call.
C3_OuterCompletesNormally ==
    \A p \in Calls :
        Children(p) # {} =>
            ~(calls[p].status = "failed" /\ HasReentrancyError(calls[p].error))

\* C3, amended: a dispatch call made by a listener fails with the reentrancy
\* error without passing the guards, invoking a listener or changing the
\* emitter; the flag stays set for as long as the outer call is on the stack,
\* and no second loop ever starts; the outer call fails with the reentrancy
\* error only if the listener let the failure of its call escape (it did not
\* catch it, or it returned it as its result); and when the loop of a call
\* whose listener dispatched has run to its end, every registered and not
\* unregistered listener has been invoked.
C3_ReentrancyGuard ==
    /\ [](/\ \A n \in Calls :
                calls[n].parent # 0 =>
                    /\ calls[n].status = "failed"
                    /\ calls[n].error = ReentrancyError
                    /\ ~calls[n].entered
                    /\ calls[n].log = <<>>
                    /\ calls[n].promises = <<>>
          /\ stack # <<>> => emitter.dispatching /\ Len(stack) = 1
          /\ \A p \in Calls :
                calls[p].status = "failed" /\ HasReentrancyError(calls[p].error)
                    /\ Children(p) # {}
                => \E n \in Children(p) : calls[n].escaped
          /\ LoopFinished /\ Children(Top.call) # {} =>
                Active \subseteq LogRegs(Top.call))
    /\ [][stack # <<>> /\ Len(calls') > Len(calls) =>
             /\ emitter' = emitter
             /\ handles' = handles
             /\ Len(stack') = Len(stack)
             /\ stack'[1].i = stack[1].i
             /\ stack'[1].at = stack[1].at]_vars

\* The first of two listeners dispatched, the inner call failed, and the outer
\* call went on to the second listener and completed normally.
C3_Witness ==
    \E p \in Calls : \E n \in Children(p) :
        /\ calls[n].by = 1
        /\ Len(calls[p].log) = 2
        /\ calls[p].status = "returned"

----------------------------------------------------------------------------
\* A dispatch call has passed the guards of #dispatch.
Dispatched == \E c \in Calls : calls[c].entered

\* C4 as stated: in a unique emitter, a dispatch call issued outside any
\* listener after a prior dispatch fails, with the already-emitted error and
\* with no other, and invokes no listener.
C4_OnlyAlreadyEmitted ==
    cfg.unique =>
        \A c \in Calls :
            calls[c].parent = 0 /\ (\E c0 \in 1..(c - 1) : calls[c0].entered) =>
                /\ calls[c].status = "failed"
                /\ calls[c].error = AlreadyEmittedError
                /\ calls[c].log = <<>>

\* A listen call has just returned or thrown.
ListenStep == Len(handles') + Len(listenErrors') > Len(handles) + Len(listenErrors)

\* C5: in a unique emitter that has dispatched, a listen call changes nothing
\* of the emitter (it adds nothing to the registry and warns of nothing); with
\* listenAfterUniqueDispatched = 'error' it throws the already-emitted error,
\* otherwise it returns the no-op handle; and calling a no-op handle changes
\* neither the emitter nor the handle, in every reachable state.
C5_ListenAfterUniqueDispatch ==
    /\ [][cfg.unique /\ Dispatched /\ ListenStep =>
             /\ emitter' = emitter
             /\ warnings' = warnings
             /\ IF cfg.listenAfterUniqueDispatched = "error"
                THEN /\ handles' = handles
                     /\ listenErrors' = Append(listenErrors, AlreadyEmittedError)
                     /\ stack # <<>> =>
                            stack'[Len(stack')].exc = AlreadyEmittedError
                ELSE /\ listenErrors' = listenErrors
                     /\ Len(handles') = Len(handles) + 1
                     /\ handles'[Len(handles')].isNoop
                     /\ stack' = stack]_vars
    /\ [](\A k \in Handles : handles[k].isNoop =>
              /\ undoEmitter(emitter, handles[k]) = emitter
              /\ undoHandle(emitter, handles[k]) = handles[k])

\* A unique emitter has dispatched to a listener and completed, and a listen
\* call after that returned the no-op handle.
C5_Witness ==
    /\ cfg.unique
    /\ \E c \in Calls : calls[c].looped /\ Len(calls[c].log) = 1
    /\ \E k \in Handles : handles[k].isNoop
    /\ emitter.listeners = <<>>

----------------------------------------------------------------------------
\* The promises call c collected, and whether all of them have settled.
Results(c) == {calls[c].promises[k] : k \in 1..Len(calls[c].promises)}
AllSettled(c) == \A p \in Results(c) : PState(promises[p]) # "pending"
\* The elements of a set of numbers, in increasing order.
Sorted(S) ==
    [n \in 1..Cardinality(S) |->
        CHOOSE x \in S : Cardinality({y \in S : y < x}) = n - 1]
\* The positions, in the log of call c, of the listeners whose result failed,
\* and the reasons of these failures in the order of invocation.
FailedAt(c) ==
    {promises[p].by : p \in {q \in Results(c) : PState(promises[q]) = "rejected"}}
FailureReasons(c) ==
    [n \in 1..Cardinality(FailedAt(c)) |->
        PReason(promises[CHOOSE p \in Results(c) :
                            promises[p].by = Sorted(FailedAt(c))[n]])]
\* The failures of the listeners of call c: those of their results and, when a
\* listener threw out of the loop, that of the throw.
ListenerFailures(c) ==
    IF calls[c].looped THEN FailureReasons(c)
    ELSE FailureReasons(c) \o <<calls[c].error>>

\* C6 as stated: an asynchronous dispatch that has completed has seen all the
\* results it collected settle; it completed normally if no listener failed,
\* with the one reason if one failed, and with the aggregate of the reasons, in
\* invocation order, if several failed.
C6_AsyncAggregation ==
    cfg.kind = "async" =>
        \A c \in Calls :
            calls[c].entered /\ calls[c].status \in {"returned", "failed"} =>
                /\ AllSettled(c)
                /\ LET errs == ListenerFailures(c) IN
                   CASE Len(errs) = 0 ->
                          calls[c].status = "returned" /\ calls[c].error = NoError
                     [] Len(errs) = 1 ->
                          calls[c].status = "failed" /\ calls[c].error = errs[1]
                     [] OTHER ->
                          /\ calls[c].status = "failed"
                          /\ calls[c].error = AggregateError(errs)

\* C7 as stated: in the asynchronous emitter a cycle that has ended, whether or
\* not a listener threw, has left no registered listener uninvoked.
C7_AsyncListenerIsolation ==
    cfg.kind = "async" =>
        \A c \in Calls :
            calls[c].entered /\ calls[c].status # "running" =>
                calls[c].skipped = {}

\* C8 as stated: whenever no dispatch call is on the call stack, the flag is
\* false, and no dispatch issued outside a listener fails with the reentrancy
\* error.
C8_FlagOnlyWhileDispatching ==
    /\ stack = <<>> => ~emitter.dispatching
    /\ \A c \in Calls : calls[c].parent = 0 => calls[c].error # ReentrancyError

\* C9: in the asynchronous emitter, while the latest dispatch call is suspended
\* at its await, its loop has run to its end, the flag is clear and the
\* registry of a unique emitter is reset; and the next dispatch call, issued
\* while a result of that call is pending, is not refused by the reentrancy
\* test: in a non-unique emitter it passes the guards and its loop invokes
\* every registered and not unregistered listener, in a unique emitter it
\* fails with the already-emitted error.
C9_AsyncReentrancyWindow ==
    cfg.kind = "async" =>
        /\ calls # <<>> /\ calls[Len(calls)].status = "awaiting" =>
              /\ stack = <<>>
              /\ calls[Len(calls)].looped
              /\ calls[Len(calls)].skipped = {}
              /\ ~emitter.dispatching
              /\ cfg.unique => emitter.listeners = <<>> /\ emitter.clearCount = 1
        /\ \A c \in Calls :
              calls[c].overlap =>
                  /\ ~calls[c].entered => calls[c].error # ReentrancyError
                  /\ calls[c].entered = ~cfg.unique
                  /\ cfg.unique => calls[c].error = AlreadyEmittedError
                  /\ LoopFinished /\ Top.call = c => Active \subseteq LogRegs(c)

\* A second dispatch was issued while a result of the first was pending, and
\* it invoked the listener again and ran to its end.
C9_Witness ==
    \E c \in Calls :
        /\ calls[c].overlap
        /\ calls[c].looped
        /\ Len(calls[c].log) >= 1
        /\ \E p \in Results(c - 1) : PState(promises[p]) = "pending"

\* The tombstoned slots held in the registry.
StaleSlots == {k \in 1..Len(emitter.listeners) : emitter.listeners[k] = noop}

\* C10 as stated: the registry never holds more tombstoned slots than the
\* threshold.
C10_BoundedStaleSlots == Cardinality(StaleSlots) <= maxUnsubscribeCount

----------------------------------------------------------------------------
\* A listen call has just put a listener into the registry.
Registered == Len(handles') = Len(handles) + 1 /\ ~handles'[Len(handles')].isNoop

\* C18: a listen call that registers a listener when the registry already
\* holds maxListeners slots or more (so the registration of the
\* (maxListeners+1)-th listener) emits exactly one warning and still registers
\* the listener in a new slot at the end; a registration below the limit
\* emits none; a listen call fails only with the already-emitted error of a
\* unique emitter that has dispatched, never because of maxListeners; and a
\* dispatch cycle whose loop has run to its end has invoked every registered
\* and not unregistered listener, however many there are.
C18_MaxListenersWarning ==
    /\ [][Registered =>
             /\ warnings' = warnings +
                    (IF Len(emitter.listeners) >= maxListeners THEN 1 ELSE 0)
             /\ Len(emitter'.listeners) = Len(emitter.listeners) + 1
             /\ emitter'.listeners[Len(emitter'.listeners)].reg = Len(handles')
             /\ listenErrors' = listenErrors]_vars
    /\ [][Len(listenErrors') > Len(listenErrors) =>
             /\ isUniqueAndDone
             /\ cfg.listenAfterUniqueDispatched = "error"
             /\ listenErrors' = Append(listenErrors, AlreadyEmittedError)]_vars
    /\ [](LoopFinished /\ Cardinality(Active) > maxListeners =>
             /\ Active \subseteq LogRegs(Top.call)
             /\ \A k \in Active : InvokedCount(k) >= 1)

\* The third listener was registered over the limit of two with one warning,
\* and the next dispatch has invoked all three.
C18_Witness ==
    /\ warnings = 1
    /\ LoopFinished
    /\ Active = {1, 2, 3}
    /\ LogRegs(Top.call) = {1, 2, 3}

----------------------------------------------------------------------------
\* A handle has just been called for the first time, while a cycle is running.
UndoInCycle ==
    /\ stack # <<>>
    /\ \E k \in Handles : handles[k].index # -1 /\ handles'[k].index = -1

\* C20: when a handle is called while a dispatch cycle is in progress, the
\* registry keeps its length, the slot of the unregistered listener becomes the
\* tombstone and every other slot keeps its content, and the loop keeps its
\* position; a listener that is unregistered is not invoked from then on; the
\* loop invokes the listeners in the order of their slots, each at most once;
\* and when the loop of a cycle has run to its end, every listener that is
\* registered and not unregistered has been invoked in that cycle.
C20_IndexStability ==
    /\ [][UndoInCycle =>
             /\ Len(emitter'.listeners) = Len(emitter.listeners)
             /\ \A i \in 1..Len(emitter.listeners) :
                    \/ emitter'.listeners[i] = emitter.listeners[i]
                    \/ /\ emitter'.listeners[i] = noop
                       /\ emitter.listeners[i].reg \in Handles
                       /\ handles'[emitter.listeners[i].reg].index = -1
                       /\ handles[emitter.listeners[i].reg].index = i - 1
             /\ stack' = stack]_vars
    /\ [][\A k \in Handles :
             Unregistered(k) => InvokedCount(k)' = InvokedCount(k)]_vars
    /\ [](\A c \in Calls : \A j, k \in 1..Len(calls[c].log) :
             j < k => calls[c].log[j].reg < calls[c].log[k].reg)
    /\ [](LoopFinished =>
             \A k \in Active :
                 Cardinality({j \in 1..Len(calls[Top.call].log) :
                                 calls[Top.call].log[j].reg = k}) = 1)

\* In the first cycle the first listener was invoked and then unregistered
\* (by itself or by the second), and the loop went on to invoke the second and
\* the third listener and ran to its end.
C20_Witness ==
    /\ LoopFinished
    /\ Top.call = 1
    /\ 1 \in Handles
    /\ Unregistered(1)
    /\ LogRegs(1) = {1, 2, 3}
    /\ Active = {2, 3}

----------------------------------------------------------------------------
Waits == 1..Len(waits)
\* The listener of the w-th untilNext call is in the registry.
WaitActive(w) ==
    \E i \in 1..Len(emitter.listeners) : emitter.listeners[i].fn = WaitFn(w)
\* Its onAbort is an 'abort' listener of the signal.
Observed(w) == \E j \in 1..Len(signal.observers) : signal.observers[j] = w
\* The invocations of its listener, over all dispatch calls.
WaitInvocations(w) ==
    UNION {{<<c, j>> : j \in {i \in 1..Len(calls[c].log) :
                                  calls[c].log[i].fn = WaitFn(w)}} : c \in Calls}
\* The loop has invoked its listener, which has not run yet.
WaitRunning(w) == stack # <<>> /\ Top.at = "listener" /\ Current = WaitFn(w)
\* The dispatch cycles that can reach its listener: those that start after
\* the untilNext call, and the one that a listener made the call from.
CyclesFor(w) ==
    {c \in Calls : calls[c].entered /\ (c > waits[w].after \/ c = waits[w].inCall)}

EagerCheckUntilNext ==
    [][signal.aborted /\ Len(waits') > Len(waits) /\ waits'[Len(waits')].signal =>
          /\ waits'[Len(waits')].state = "rejected"
          /\ waits'[Len(waits')].reason = signal.reason
          /\ waits'[Len(waits')].handle = 0
          /\ <<engine, signal, gen, now>>' = <<engine, signal, gen, now>>
          /\ SubSeq(waits', 1, Len(waits)) = waits]_vars

----------------------------------------------------------------------------
\* Vocabulary of the properties of the generator.
Pulls == 1..Len(gen.pulls)
Buffered == gen.bufferSize > 0 /\ gen.windowTime > 0
\* The listener of the generator is in the registry.
BridgeActive ==
    \E i \in 1..Len(emitter.listeners) : emitter.listeners[i].fn = BridgeFn
\* The loop has invoked the listener of the generator, which has not run yet.
BridgeRunning == stack # <<>> /\ Top.at = "listener" /\ Current = BridgeFn
\* The values the listener of the generator was given (the c-th call sends c).
Delivered ==
    {c \in Calls :
        /\ \E j \in 1..Len(calls[c].log) : calls[c].log[j].fn = BridgeFn
        /\ ~(BridgeRunning /\ Top.call = c)}
QueueValues == {gen.values[i].value : i \in 1..Len(gen.values)}
\* A next() call has just been made, the listener has just run, a next() call
\* has just been answered with a value.
PullStep == Len(gen'.pulls) > Len(gen.pulls)
DeliveryStep == BridgeRunning /\ stack' # stack
YieldStep ==
    /\ gen.pulls # <<>>
    /\ gen.pulls[Len(gen.pulls)].status = "pending"
    /\ gen'.pulls[Len(gen.pulls)].status = "yielded"

\* C12 as stated: a next() call made with a signal that is already aborted
\* changes neither the registry nor the warnings nor the observers of the
\* signal, and it fails with the reason of the signal.
C12_EagerCancellationCheck ==
    /\ [][PullStep /\ gen.signal /\ signal.aborted =>
             /\ emitter' = emitter
             /\ handles' = handles
             /\ warnings' = warnings
             /\ signal' = signal]_vars
    /\ [](\A j \in Pulls :
            gen.pulls[j].aborted /\ gen.state # "running" =>
                /\ gen.pulls[j].status = "failed"
                /\ gen.pulls[j].error = signal.reason)

----------------------------------------------------------------------------
\* C13 as stated: bufferSize 2 and a window that has not run out; three values
\* are dispatched to the emitter on which the sequence was created, and then
\* the first next() call is made: it is answered with the second value.
C13_BurstThenPull ==
    /\ gen.bufferSize = 2
    /\ gen.windowTime = 1
    /\ now <= 1
    /\ Len(calls) = 3
    /\ \A c \in Calls : calls[c].looped
    /\ gen.pulls # <<>>
    /\ gen.pulls[1].after = 3
    /\ ~gen.pulls[1].aborted
    /\ gen.state # "running"
    => gen.pulls[1].status = "yielded" /\ gen.pulls[1].value = 2

\* C13, amended: the listener of the generator is registered by the first
\* next() call, so that no value dispatched before that call is delivered to
\* it; in the buffered regime the queue holds, in dispatch order, the latest
\* values that were delivered, as many as it has entries and at most
\* bufferSize; and a next() call that is answered is answered with the oldest
\* entry that has not expired, which leaves the queue.
C13_BufferedQueue ==
    /\ [](/\ \A c \in Delivered : gen.pulls # <<>> /\ c > gen.pulls[1].after
          /\ Buffered =>
                /\ Len(gen.values) <= gen.bufferSize
                /\ \A i, j \in 1..Len(gen.values) :
                      i < j => gen.values[i].value < gen.values[j].value
                /\ QueueValues \subseteq Delivered
                /\ \A c \in Delivered : \A v \in QueueValues :
                      c > v => c \in QueueValues)
    /\ [][YieldStep /\ Buffered =>
             LET values == purge(gen.values, now) IN
             /\ values # <<>>
             /\ gen'.pulls[Len(gen.pulls)].value = Head(values).value
             /\ gen'.values = Tail(values)]_vars

\* With bufferSize 2, the first next() call was suspended when three values
\* were dispatched; it was answered with the second, and the next call with
\* the third.
C13_Witness ==
    /\ gen.bufferSize = 2
    /\ Delivered = {1, 2, 3}
    /\ Len(gen.pulls) = 2
    /\ gen.pulls[1].status = "yielded" /\ gen.pulls[1].value = 2
    /\ gen.pulls[2].status = "yielded" /\ gen.pulls[2].value = 3

----------------------------------------------------------------------------
\* C14: in every reachable state the queue holds at most bufferSize entries
\* in the buffered regime and at most one in the drop-to-latest regime; and
\* when the listener is given a value while the queue is full, the oldest
\* entry leaves the queue and the new value enters it at the end.
C14_QueueBound ==
    /\ [](IF Buffered THEN Len(gen.values) <= gen.bufferSize
                      ELSE Len(gen.values) <= 1)
    /\ [][DeliveryStep /\ Buffered /\ Len(gen.values) = gen.bufferSize =>
             /\ Len(gen'.values) = gen.bufferSize
             /\ SubSeq(gen'.values, 1, Len(gen.values) - 1) = Tail(gen.values)
             /\ gen'.values[Len(gen'.values)].value = calls[Top.call].value]_vars

\* With bufferSize 2 the queue is full after three values: the first has left.
C14_Witness ==
    /\ gen.bufferSize = 2
    /\ Delivered = {1, 2, 3}
    /\ Len(gen.values) = 2
    /\ gen.values[1].value = 2
    /\ gen.values[2].value = 3

----------------------------------------------------------------------------
\* The first value delivered after the j-th next() call was made.
FirstAfter(j) ==
    {c \in Delivered :
        /\ c > gen.pulls[j].after
        /\ \A d \in Delivered : d > gen.pulls[j].after => c <= d}

\* C15: in the drop-to-latest regime, a value that the listener is given
\* while no read is pending changes nothing of the generator, and one that it
\* is given while a read is pending becomes the only entry of the queue and
\* wakes the read; the body that resumes with an entry in the queue, its
\* signal not aborted, answers the next() call with that entry; and a next()
\* call is only ever answered with the first value delivered after it was
\* made, so that no value delivered while no read was pending is yielded, and
\* none is yielded twice.
C15_DropToLatest ==
    ~Buffered =>
        /\ \A j \in Pulls :
              gen.pulls[j].status = "yielded" =>
                  /\ gen.pulls[j].value \in FirstAfter(j)
                  /\ gen.pulls[j].expirationDate = Infinity
                  /\ \A k \in Pulls :
                        k # j /\ gen.pulls[k].status = "yielded" =>
                            gen.pulls[k].value # gen.pulls[j].value
        /\ gen.values # <<>> =>
              /\ Len(gen.values) = 1
              /\ ~gen.pendingRead
              /\ gen.pulls # <<>>
              /\ gen.values[1].value \in FirstAfter(Len(gen.pulls))
        /\ gen.state = "running" /\ gen.values # <<>>
              /\ ~(gen.signal /\ signal.aborted) =>
              LET st == loopTurn(GenState(emitter, handles, signal, gen), now) IN
              /\ st.gen.pulls[Len(gen.pulls)].status = "yielded"
              /\ st.gen.pulls[Len(gen.pulls)].value = gen.values[1].value
        /\ BridgeRunning =>
              LET g == bridgeListener(gen, calls[Top.call].value, now) IN
              IF gen.pendingRead
              THEN /\ g.values = <<[value |-> calls[Top.call].value,
                                    expirationDate |-> Infinity]>>
                   /\ g.read = "resolved"
                   /\ ~g.pendingRead
              ELSE g = gen

\* In the drop-to-latest regime the first value woke the first next() call,
\* the second came before the body resumed and was dropped, and the second
\* next() call was answered with the third.
C15_Witness ==
    /\ ~Buffered
    /\ Delivered = {1, 2, 3}
    /\ Len(gen.pulls) = 2
    /\ gen.pulls[1].status = "yielded" /\ gen.pulls[1].value = 1
    /\ gen.pulls[2].status = "yielded" /\ gen.pulls[2].value = 3

----------------------------------------------------------------------------
\* controller.abort() has just been called.
AbortStep == ~signal.aborted /\ signal'.aborted
\* The body of the generator has just left its await.
ResumeStep == gen.state = "awaiting" /\ gen'.state # "awaiting"
\* onAbort of the generator is an 'abort' listener of the signal.
BridgeObserved ==
    \E j \in 1..Len(signal.observers) : signal.observers[j] = BridgeOnAbort

----------------------------------------------------------------------------
\* C17 as stated: after return() was called, for as long as the listener of
\* the generator is in the registry (and no dispatch is running), the body of
\* the generator can take a step of its own, so that the release does not
\* depend on a further dispatch or on an abort.
C17_AbandonReleases ==
    gen.returned /\ BridgeActive /\ stack = <<>> =>
        ENABLED GenLoop \/ ENABLED GenResume

----------------------------------------------------------------------------
\* C19: in the buffered regime the values yielded are values that were
\* delivered, in increasing order of dispatch (none twice, none out of order);
\* the listener gives each value the expiration date now + windowTime; a
\* next() call is answered with an entry that has not expired, neither at the
\* instant of the answer nor at the instant the call was made.
C19_BufferedOrdering ==
    /\ [](Buffered =>
            /\ \A j \in Pulls :
                  gen.pulls[j].status = "yielded" =>
                      /\ gen.pulls[j].value \in Delivered
                      /\ gen.pulls[j].start <= gen.pulls[j].expirationDate
                      /\ \A k \in Pulls :
                            j < k /\ gen.pulls[k].status = "yielded" =>
                                gen.pulls[j].value < gen.pulls[k].value
            /\ \A i \in 1..Len(gen.values) :
                  gen.values[i].expirationDate <= now + gen.windowTime)
    /\ [][DeliveryStep /\ Buffered =>
             /\ gen'.values # <<>>
             /\ gen'.values[Len(gen'.values)] =
                    [value |-> calls[Top.call].value,
                     expirationDate |-> IF gen.windowTime = Infinity THEN Infinity
                                        ELSE now + gen.windowTime]]_vars
    /\ [][YieldStep /\ Buffered =>
             gen'.pulls[Len(gen.pulls)].expirationDate >= now]_vars

\* With a window of one instant and no bound on the queue, the second value
\* expired in the queue: the next() call made after that was answered with
\* the third.
C19_Witness ==
    /\ gen.windowTime = 1
    /\ gen.bufferSize = Infinity
    /\ Delivered = {1, 2, 3}
    /\ Len(gen.pulls) = 2
    /\ gen.pulls[1].status = "yielded" /\ gen.pulls[1].value = 1
    /\ gen.pulls[2].status = "yielded" /\ gen.pulls[2].value = 3

----------------------------------------------------------------------------
\* C21 as stated: in every interleaving of dispatch and abort, onAbort of the
\* generator runs only while pendingRead is defined, that is, it never
\* evaluates pendingRead!.reject with pendingRead undefined; and a next() call
\* that was suspended is answered with the value that was delivered or fails
\* with the reason of the signal.
C21_AbortHandlerSafe ==
    /\ ~gen.derefUndefined
    /\ \A j \in Pulls :
          /\ gen.pulls[j].status = "failed" /\ gen.handle # 0 =>
                 gen.pulls[j].error = signal.reason
          /\ gen.pulls[j].status = "yielded" => gen.pulls[j].value \in Delivered

----------------------------------------------------------------------------
\* The w-th untilNext call was made without a signal on a unique emitter that
\* had dispatched (a dispatch call made before it had passed the guards).
OnUniqueDone(w) ==
    /\ cfg.unique
    /\ ~waits[w].signal
    /\ \E c \in Calls : c <= waits[w].after /\ calls[c].entered

\* C22 as stated: the promise of an untilNext call made without a signal on a
\* unique emitter that has dispatched is rejected with the already-emitted
\* error when listenAfterUniqueDispatched is 'error', and otherwise does not
\* stay pending for ever: while it is pending, its listener is in the registry
\* (a promise that is pending with no listener in the registry and no signal
\* to observe can be settled by no step).
C22_UniqueDoneSettles ==
    \A w \in Waits :
        OnUniqueDone(w) =>
            /\ cfg.listenAfterUniqueDispatched = "error" =>
                   /\ waits[w].state = "rejected"
                   /\ waits[w].reason = AlreadyEmittedError
            /\ waits[w].state = "pending" => WaitActive(w) \/ WaitRunning(w)

----------------------------------------------------------------------------
\* C23 as stated: a listen call emits the max-listeners warning only when the
\* number of listeners that are registered and not unregistered, after the
\* call, exceeds maxListeners: the slots of listeners unregistered earlier do
\* not count.
C23_WarnsOnActiveOnly ==
    [][warnings' > warnings => Cardinality(Active') > maxListeners]_vars

----------------------------------------------------------------------------
\* A listener has just called listen while a dispatch cycle is running.
ListenInCycle == stack # <<>> /\ ListenStep

\* C24 as stated: in a non-unique emitter, a listener registered by a listener
\* during a dispatch cycle has been invoked in that cycle once the cycle has
\* ended; in a unique emitter, a listen call made by a listener during the
\* dispatch registers nothing.
C24_ListenDuringDispatch ==
    \A k \in Handles :
        LET c == handles[k].inCall IN
        c # 0 =>
            IF cfg.unique THEN handles[k].isNoop
            ELSE calls[c].status # "running" => k \in LogRegs(c)

\* C24, amended: in a non-unique emitter, a listen call made by a listener
\* appends the listener to the registry, beyond the position of the running
\* loop, and when the loop of that cycle has run to its end, the listener has
\* been invoked in that cycle, or has been unregistered; if it was invoked in
\* that cycle, it was invoked once, with the value of the cycle, after every
\* listener registered before it.  In a unique emitter, a listen call made by
\* a listener changes nothing of the emitter: it throws the already-emitted
\* error, or returns the no-op handle.
C24_LateListener ==
    /\ [](\A k \in Handles :
             LET c == handles[k].inCall IN
             c # 0 /\ ~cfg.unique =>
                 /\ ~handles[k].isNoop
                 /\ calls[c].looped => k \in LogRegs(c) \/ Unregistered(k)
                 /\ \A j \in 1..Len(calls[c].log) :
                        calls[c].log[j].reg = k =>
                            /\ calls[c].log[j].value = calls[c].value
                            /\ \A i \in 1..Len(calls[c].log) :
                                   (i < j <=> calls[c].log[i].reg < k)
                                   /\ (i # j => calls[c].log[i].reg # k))
    /\ [][ListenInCycle /\ ~cfg.unique =>
             /\ Len(handles') = Len(handles) + 1
             /\ handles'[Len(handles')].inCall = Top.call
             /\ Len(emitter'.listeners) = Len(emitter.listeners) + 1
             /\ emitter'.listeners[Len(emitter'.listeners)].reg = Len(handles')
             /\ \A i \in 1..Len(emitter.listeners) :
                    emitter'.listeners[i] = emitter.listeners[i]
             /\ Top.i < Len(emitter.listeners)
             /\ stack' = stack]_vars
    /\ [](cfg.unique => \A k \in Handles :
                            handles[k].inCall # 0 => handles[k].isNoop)
    /\ [][ListenInCycle /\ cfg.unique =>
             /\ emitter' = emitter
             /\ IF cfg.listenAfterUniqueDispatched = "error"
                THEN /\ handles' = handles
                     /\ listenErrors' = Append(listenErrors, AlreadyEmittedError)
                ELSE /\ listenErrors' = listenErrors
                     /\ handles'[Len(handles')].isNoop]_vars

\* In a non-unique emitter the first listener registered a second one during
\* the first cycle, and the loop of that cycle went on to invoke it, with the
\* value of the cycle, and ended.
C24_Witness ==
    /\ ~cfg.unique
    /\ calls # <<>>
    /\ calls[1].looped
    /\ Len(handles) >= 2
    /\ handles[1].inCall = 0
    /\ handles[2].inCall = 1
    /\ Len(calls[1].log) = 2
    /\ calls[1].log[1].reg = 1
    /\ calls[1].log[2].reg = 2
    /\ calls[1].log[2].value = calls[1].value

====
